---- MODULE Spec2Model ----
(***************************************************************************)
(* Model of backend/server.js: the EmbeddingPipeline singleton, the answer *)
(* evaluator with its keyword fallback, and the question generator.        *)
(* A JavaScript string is a sequence of one-character strings, so that     *)
(* trimming, tokenising, pattern matching and JSON decoding are computed.  *)
(***************************************************************************)
EXTENDS Integers, Sequences, FiniteSets, TLC

(* ------------------------------ bounds -------------------------------- *)

\* Cap on the number of load attempts counted in loadsStarted.
MaxLoads == 3

(* ----------------------- JavaScript values ---------------------------- *)

\* A request-body field that is absent (undefined).
Undefined == [type |-> "undefined", chars |-> <<>>]

\* A string value.
Str(s) == [type |-> "string", chars |-> s]

\* JavaScript truthiness of an absent, string or number value (`!x`, `x || y`).
Truthy(v) ==
    \/ v.type = "string" /\ v.chars # <<>>
    \/ v.type = "number" /\ v.chars # <<"0">>

\* null, as held by instance / loadError / a local before assignment.
Null == "null"

\* The pipeline function object returned by pipeline(task, model).
Extractor == "extractor"

\* The error object caught when pipeline(task, model) rejects.
LoadErr == "error"

(* --------------------------- string literals -------------------------- *)

NA ==
    <<"N", "/", "A">>
CouldNotEvaluate ==
    <<"C", "o", "u", "l", "d", " ", "n", "o", "t", " ", "e", "v", "a", "l", "u", "a", "t", "e",
      " ", "a", "n", "s", "w", "e", "r", ".">>
EstimatedScorePrefix ==
    <<"*", "*", "E", "s", "t", "i", "m", "a", "t", "e", "d", " ", "S", "c", "o", "r", "e", ":",
      " ">>
EstimatedScoreSuffix ==
    <<"%", "*", "*", " ", "(", "U", "s", "i", "n", "g", " ", "f", "a", "l", "l", "b", "a", "c",
      "k", " ", "e", "v", "a", "l", "u", "a", "t", "i", "o", "n", ")", "\n", "\n">>
FallbackGood ==
    <<"G", "o", "o", "d", "!", " ", "Y", "o", "u", "r", " ", "a", "n", "s", "w", "e", "r", " ",
      "c", "o", "v", "e", "r", "s", " ", "m", "a", "n", "y", " ", "k", "e", "y", " ", "c", "o",
      "n", "c", "e", "p", "t", "s", ".">>
FallbackOnTrack ==
    <<"Y", "o", "u", "'", "r", "e", " ", "o", "n", " ", "t", "h", "e", " ", "r", "i", "g", "h",
      "t", " ", "t", "r", "a", "c", "k", ",", " ", "b", "u", "t", " ", "c", "o", "u", "l", "d",
      " ", "e", "x", "p", "a", "n", "d", " ", "m", "o", "r", "e", " ", "o", "n", " ", "k", "e",
      "y", " ", "c", "o", "n", "c", "e", "p", "t", "s", ".">>
FallbackNeedsDetail ==
    <<"Y", "o", "u", "r", " ", "a", "n", "s", "w", "e", "r", " ", "n", "e", "e", "d", "s", " ",
      "m", "o", "r", "e", " ", "d", "e", "t", "a", "i", "l", ".", " ", "R", "e", "v", "i", "e",
      "w", " ", "t", "h", "e", " ", "i", "d", "e", "a", "l", " ", "a", "n", "s", "w", "e", "r",
      " ", "f", "o", "r", " ", "k", "e", "y", " ", "p", "o", "i", "n", "t", "s", ".">>
SimilarityScorePrefix ==
    <<"*", "*", "S", "i", "m", "i", "l", "a", "r", "i", "t", "y", " ", "S", "c", "o", "r", "e",
      ":", " ">>
SimilarityScoreSuffix ==
    <<"%", "*", "*", "\n", "\n">>
FeedbackExcellent ==
    <<"E", "x", "c", "e", "l", "l", "e", "n", "t", "!", " ", "Y", "o", "u", "r", " ", "a", "n",
      "s", "w", "e", "r", " ", "i", "s", " ", "v", "e", "r", "y", " ", "c", "o", "m", "p", "r",
      "e", "h", "e", "n", "s", "i", "v", "e", " ", "a", "n", "d", " ", "c", "l", "o", "s", "e",
      "l", "y", " ", "m", "a", "t", "c", "h", "e", "s", " ", "t", "h", "e", " ", "k", "e", "y",
      " ", "p", "o", "i", "n", "t", "s", ".">>
FeedbackGoodJob ==
    <<"G", "o", "o", "d", " ", "j", "o", "b", "!", " ", "Y", "o", "u", " ", "h", "a", "v", "e",
      " ", "t", "h", "e", " ", "r", "i", "g", "h", "t", " ", "i", "d", "e", "a", ",", " ", "b",
      "u", "t", " ", "y", "o", "u", " ", "m", "i", "g", "h", "t", " ", "b", "e", " ", "m", "i",
      "s", "s", "i", "n", "g", " ", "a", " ", "f", "e", "w", " ", "k", "e", "y", " ", "d", "e",
      "t", "a", "i", "l", "s", ".">>
FeedbackOnTrack ==
    <<"Y", "o", "u", "'", "r", "e", " ", "o", "n", " ", "t", "h", "e", " ", "r", "i", "g", "h",
      "t", " ", "t", "r", "a", "c", "k", ",", " ", "b", "u", "t", " ", "y", "o", "u", "r", " ",
      "a", "n", "s", "w", "e", "r", " ", "i", "s", " ", "q", "u", "i", "t", "e", " ", "d", "i",
      "f", "f", "e", "r", "e", "n", "t", ".", " ", "T", "r", "y", " ", "t", "o", " ", "b", "e",
      " ", "m", "o", "r", "e", " ", "s", "p", "e", "c", "i", "f", "i", "c", ".">>
FeedbackMissing ==
    <<"Y", "o", "u", "r", " ", "a", "n", "s", "w", "e", "r", " ", "s", "e", "e", "m", "s", " ",
      "t", "o", " ", "b", "e", " ", "m", "i", "s", "s", "i", "n", "g", " ", "t", "h", "e", " ",
      "m", "a", "i", "n", " ", "p", "o", "i", "n", "t", "s", ".", " ", "L", "e", "t", "'", "s",
      " ", "r", "e", "v", "i", "e", "w", " ", "t", "h", "e", " ", "i", "d", "e", "a", "l", " ",
      "a", "n", "s", "w", "e", "r", ".">>

(* --------------------------- string helpers --------------------------- *)

UpperCase ==
    <<"A", "B", "C", "D", "E", "F", "G", "H", "I", "J", "K", "L", "M",
      "N", "O", "P", "Q", "R", "S", "T", "U", "V", "W", "X", "Y", "Z">>

LowerCase ==
    <<"a", "b", "c", "d", "e", "f", "g", "h", "i", "j", "k", "l", "m",
      "n", "o", "p", "q", "r", "s", "t", "u", "v", "w", "x", "y", "z">>

Digits ==
    <<"0", "1", "2", "3", "4", "5", "6", "7", "8", "9">>

Range(f) == {f[x] : x \in DOMAIN f}

\* String.prototype.toLowerCase on one character.
LowerChar(c) ==
    IF c \in Range(UpperCase)
      THEN LowerCase[CHOOSE k \in DOMAIN UpperCase : UpperCase[k] = c]
      ELSE c

\* String.prototype.toLowerCase.
toLowerCase(s) == [k \in DOMAIN s |-> LowerChar(s[k])]

\* The regular-expression class \w.
IsWordChar(c) == c \in Range(UpperCase) \cup Range(LowerCase) \cup Range(Digits) \cup {"_"}

\* The positions of s at which /\b\w+\b/ can start a match: a word character
\* that has none before it.
WordStarts(s) ==
    {k \in 1..Len(s) : IsWordChar(s[k]) /\ (k = 1 \/ ~IsWordChar(s[k - 1]))}

\* The position at which the match that starts at k ends: \w+ is greedy, and
\* \b asks that no word character follows.
WordEnd(s, k) ==
    CHOOSE j \in k..Len(s) :
        /\ \A i \in k..j : IsWordChar(s[i])
        /\ j = Len(s) \/ ~IsWordChar(s[j + 1])

\* s.match(/\b\w+\b/g) || [] : the maximal runs of word characters, in order.
MatchWords(s) ==
    LET chars  == [k \in 1..Len(s) |-> s[k]]
        starts == WordStarts(chars)
        nth(i) == CHOOSE k \in starts : Cardinality({j \in starts : j < k}) = i - 1
    IN  [i \in 1..Cardinality(starts) |-> SubSeq(chars, nth(i), WordEnd(chars, nth(i)))]

\* Decimal digits of a natural number.
RECURSIVE NatToChars(_)
NatToChars(n) ==
    IF n < 10 THEN <<Digits[n + 1]>>
    ELSE NatToChars(n \div 10) \o <<Digits[(n % 10) + 1]>>

\* Number-to-string conversion inside a template literal (`${score}`).
NumToChars(n) == IF n < 0 THEN <<"-">> \o NatToChars(0 - n) ELSE NatToChars(n)

(* JavaScript numbers are IEEE-754 doubles: a quotient and a product are    *)
(* each rounded to 53 significant bits, ties to even. The significands are  *)
(* held as little-endian sequences of 15-bit limbs, and a positive double   *)
(* as [sig, exp] with value sig / 2^exp.                                    *)

LimbBits == 15
LimbBase == 32768
MantissaBits == 53

RECURSIVE Pow2(_)
Pow2(k) == IF k = 0 THEN 1 ELSE 2 * Pow2(k - 1)

RECURSIVE BigFromNat(_)
BigFromNat(x) ==
    IF x = 0 THEN <<>> ELSE <<x % LimbBase>> \o BigFromNat(x \div LimbBase)

RECURSIVE BigToNat(_)
BigToNat(a) ==
    IF a = <<>> THEN 0 ELSE Head(a) + LimbBase * BigToNat(Tail(a))

\* a * k + carry, for k below LimbBase.
RECURSIVE BigMulSmall(_, _, _)
BigMulSmall(a, k, carry) ==
    IF a = <<>> THEN BigFromNat(carry)
    ELSE <<(Head(a) * k + carry) % LimbBase>>
           \o BigMulSmall(Tail(a), k, (Head(a) * k + carry) \div LimbBase)

\* a + k, for k below LimbBase.
RECURSIVE BigAddSmall(_, _)
BigAddSmall(a, k) ==
    IF k = 0 THEN a
    ELSE IF a = <<>> THEN BigFromNat(k)
    ELSE <<(Head(a) + k) % LimbBase>>
           \o BigAddSmall(Tail(a), (Head(a) + k) \div LimbBase)

\* Quotient and remainder of a by n, for n up to LimbBase.
RECURSIVE BigDivRem(_, _)
BigDivRem(a, n) ==
    IF a = <<>> THEN [quot |-> <<>>, rem |-> 0]
    ELSE LET hi == BigDivRem(Tail(a), n)
             t  == hi.rem * LimbBase + Head(a)
         IN  [quot |-> IF hi.quot = <<>> /\ t \div n = 0
                         THEN <<>> ELSE <<t \div n>> \o hi.quot,
              rem  |-> t % n]

\* a * 2^bits.
BigShiftLeft(a, bits) ==
    IF a = <<>> THEN <<>>
    ELSE [k \in 1..(bits \div LimbBits) |-> 0]
           \o BigMulSmall(a, Pow2(bits % LimbBits), 0)

\* floor(a / 2^bits).
BigShiftRight(a, bits) ==
    IF Len(a) <= bits \div LimbBits THEN <<>>
    ELSE BigDivRem(SubSeq(a, (bits \div LimbBits) + 1, Len(a)),
                   Pow2(bits % LimbBits)).quot

\* The number of bits of a positive integer below LimbBase.
BitLength(x) == CHOOSE b \in 1..LimbBits : Pow2(b - 1) <= x /\ x < Pow2(b)

\* The number of bits of a (whose top limb is not zero).
BigBitLength(a) ==
    IF a = <<>> THEN 0 ELSE (Len(a) - 1) * LimbBits + BitLength(a[Len(a)])

\* a with its `bits` low bits (fewer than LimbBits) rounded away, ties to even.
RoundToNearestEven(a, bits) ==
    IF bits = 0 THEN a
    ELSE LET low  == a[1] % Pow2(bits)
             kept == BigShiftRight(a, bits)
             odd  == kept # <<>> /\ kept[1] % 2 = 1
         IN  IF low > Pow2(bits - 1) \/ (low = Pow2(bits - 1) /\ odd)
               THEN BigAddSmall(kept, 1) ELSE kept

\* The double num / den, for 0 < num <= den < LimbBase.
DoubleQuotient(num, den) ==
    LET z == CHOOSE k \in 0..LimbBits :
               /\ num * Pow2(k) >= den
               /\ k > 0 => num * Pow2(k - 1) < den
        e == (MantissaBits - 1) + z
        d == BigDivRem(BigShiftLeft(BigFromNat(num), e), den)
        odd == d.quot[1] % 2 = 1
    IN  [sig |-> IF 2 * d.rem > den \/ (2 * d.rem = den /\ odd)
                   THEN BigAddSmall(d.quot, 1) ELSE d.quot,
         exp |-> e]

\* The double x * 100, x a positive double.
DoubleTimes100(x) ==
    LET p == BigMulSmall(x.sig, 100, 0)
        drop == BigBitLength(p) - MantissaBits
    IN  [sig |-> RoundToNearestEven(p, drop), exp |-> x.exp - drop]

\* Math.round(x) = floor(x + 0.5), x a positive double below 2^LimbBits with
\* x.exp > 0.
MathRound(x) == (BigToNat(BigShiftRight(x.sig, x.exp - 1)) + 1) \div 2

\* Math.round((num / den) * 100) for 0 <= num <= den, den > 0.
RoundPercent(num, den) ==
    IF num = 0 THEN 0 ELSE MathRound(DoubleTimes100(DoubleQuotient(num, den)))

(* ------------------------- fallbackEvaluation ------------------------- *)

\* new Set(userAnswer.toLowerCase().match(/\b\w+\b/g) || [])
userWords(userAnswer) == Range(MatchWords(toLowerCase(userAnswer)))

\* idealAnswer.toLowerCase().match(/\b\w+\b/g) || []
idealWords(idealAnswer) == MatchWords(toLowerCase(idealAnswer))

\* idealWords.filter((word) => userWords.has(word)).length
matches(userAnswer, idealAnswer) ==
    LET ideal == idealWords(idealAnswer)
        user  == userWords(userAnswer)
    IN  Cardinality({k \in DOMAIN ideal : ideal[k] \in user})

\* The feedback band of the keyword scorer.
FallbackTier(score) ==
    IF score > 70 THEN FallbackGood
    ELSE IF score > 40 THEN FallbackOnTrack
    ELSE FallbackNeedsDetail

\* fallbackEvaluation(userAnswer, idealAnswer), on the characters of both.
fallbackEvaluation(userAnswer, idealAnswer) ==
    LET length == Len(idealWords(idealAnswer)) IN
    IF length = 0
      THEN [feedback |-> CouldNotEvaluate, score |-> 0]
      ELSE LET score == RoundPercent(matches(userAnswer, idealAnswer), length)
           IN  [feedback |-> EstimatedScorePrefix \o NumToChars(score)
                               \o EstimatedScoreSuffix \o FallbackTier(score),
                score |-> score]

\* The most word tokens an ideal answer given to the scorer alone holds.
MaxIdealWords == 40

\* k copies of s in a row.
Repeated(s, k) == [i \in 1..(k * Len(s)) |-> s[((i - 1) % Len(s)) + 1]]

\* An ideal answer of n word tokens: k times "Go", then n - k times "x1".
IdealAnswerOf(k, n) ==
    Repeated(<<"G", "o", " ">>, k) \o Repeated(<<"x", "1", ",">>, n - k)

\* idealAnswer arguments of fallbackEvaluation called on its own.
ScorerIdealAnswers ==
    UNION { { IdealAnswerOf(k, n) : k \in 0..n } : n \in 0..MaxIdealWords }
      \cup { <<"?", "!">> }

\* userAnswer arguments of fallbackEvaluation called on its own.
ScorerUserAnswers ==
    { <<>>, <<"g", "o">>, <<"G", "O", " ", "x", "1">>, <<"X", "1", "!">> }

(* --------------------------- evaluateAnswer --------------------------- *)

\* cos_sim(...) outcomes, in thousandths (0.804 is 804); the range is [-1, 1].
Sims == {-1000, 400, 404, 800, 804, 1000}

\* Math.round(score * 100) on a similarity given in thousandths: halves round up.
RoundSim(milli) == (milli + 5) \div 10

\* The feedback band decided on the rounded percentage instead of the raw value.
SimilarityTierOnRounded(milli) ==
    IF RoundSim(milli) > 80 THEN FeedbackExcellent
    ELSE IF RoundSim(milli) > 60 THEN FeedbackGoodJob
    ELSE IF RoundSim(milli) > 40 THEN FeedbackOnTrack
    ELSE FeedbackMissing

\* The feedback band of the embedding scorer, decided on the raw similarity.
SimilarityTier(milli) ==
    IF milli > 800 THEN FeedbackExcellent
    ELSE IF milli > 600 THEN FeedbackGoodJob
    ELSE IF milli > 400 THEN FeedbackOnTrack
    ELSE FeedbackMissing

\* How the second extractor call and cos_sim can end.
EmbedOutcomes ==
    [kind : {"sim"}, milli : Sims]
      \cup { [kind |-> "reject", milli |-> 0], [kind |-> "throw", milli |-> 0] }

\* The result built after cos_sim returned `milli`.
similarityResult(milli) ==
    [feedback |-> SimilarityScorePrefix \o NumToChars(RoundSim(milli))
                    \o SimilarityScoreSuffix \o SimilarityTier(milli),
     score |-> RoundSim(milli)]

\* The result of the early return of evaluateAnswer.
guardResult == [feedback |-> CouldNotEvaluate, score |-> 0]

\* The guard without its test of the "N/A" sentinel.
evaluateAnswerGuardWithoutSentinel(u, i) == ~Truthy(u) \/ ~Truthy(i)

\* if (!userAnswer || !idealAnswer || idealAnswer === "N/A")
evaluateAnswerGuard(u, i) == ~Truthy(u) \/ ~Truthy(i) \/ i = Str(NA)

\* Request bodies' userAnswer values.
UserAnswers ==
    { Undefined, Str(<<>>), Str(<<"A", " ", "b">>) }

\* Request bodies' idealAnswer values.
IdealAnswers ==
    { Undefined, Str(<<>>), Str(NA), Str(<<"a", " ", "b">>),
      Str(<<"a", ",", "c", " ", "C">>), Str(<<"?", "!">>) }

(* -------------------------- generateQuestion -------------------------- *)

CouldNotParseQuestion ==
    <<"C", "o", "u", "l", "d", " ", "n", "o", "t", " ", "p", "a", "r", "s", "e", " ", "q", "u",
      "e", "s", "t", "i", "o", "n">>
GenericIdealAnswer ==
    <<"P", "l", "e", "a", "s", "e", " ", "p", "r", "o", "v", "i", "d", "e", " ", "a", " ", "c",
      "o", "m", "p", "r", "e", "h", "e", "n", "s", "i", "v", "e", " ", "a", "n", "s", "w", "e",
      "r", " ", "c", "o", "v", "e", "r", "i", "n", "g", " ", "t", "h", "e", " ", "m", "a", "i",
      "n", " ", "c", "o", "n", "c", "e", "p", "t", "s", ".">>
KeyConceptsPrefix ==
    <<"W", "h", "a", "t", " ", "a", "r", "e", " ", "t", "h", "e", " ", "k", "e", "y", " ", "c",
      "o", "n", "c", "e", "p", "t", "s", " ", "o", "f", " ">>
InSep ==
    <<" ", "i", "n", " ">>
QuestionMark ==
    <<"?">>
ModelLoadingQuestion ==
    <<"T", "h", "e", " ", "A", "I", " ", "m", "o", "d", "e", "l", " ", "i", "s", " ", "c", "u",
      "r", "r", "e", "n", "t", "l", "y", " ", "l", "o", "a", "d", "i", "n", "g", ".", " ", "P",
      "l", "e", "a", "s", "e", " ", "t", "r", "y", " ", "a", "g", "a", "i", "n", " ", "i", "n",
      " ", "a", " ", "m", "o", "m", "e", "n", "t", ".">>
KeyQuestion ==
    <<"q", "u", "e", "s", "t", "i", "o", "n">>
KeyIdealAnswer ==
    <<"i", "d", "e", "a", "l", "_", "a", "n", "s", "w", "e", "r">>
Q0a ==
    <<"E", "x", "p", "l", "a", "i", "n", " ", "t", "h", "e", " ", "c", "o", "n", "c", "e", "p",
      "t", " ", "o", "f", " ">>
Q0b ==
    <<" ", "a", "n", "d", " ", "i", "t", "s", " ", "p", "r", "a", "c", "t", "i", "c", "a", "l",
      " ", "a", "p", "p", "l", "i", "c", "a", "t", "i", "o", "n", "s", ".">>
A0a ==
    <<" ", "i", "s", " ", "a", "n", " ", "i", "m", "p", "o", "r", "t", "a", "n", "t", " ", "c",
      "o", "n", "c", "e", "p", "t", " ", "i", "n", " ">>
A0b ==
    <<".", " ", "I", "t", " ", "i", "n", "v", "o", "l", "v", "e", "s", " ", "u", "n", "d", "e",
      "r", "s", "t", "a", "n", "d", "i", "n", "g", " ", "t", "h", "e", " ", "c", "o", "r", "e",
      " ", "p", "r", "i", "n", "c", "i", "p", "l", "e", "s", " ", "a", "n", "d", " ", "b", "e",
      "i", "n", "g", " ", "a", "b", "l", "e", " ", "t", "o", " ", "a", "p", "p", "l", "y", " ",
      "t", "h", "e", "m", " ", "i", "n", " ", "r", "e", "a", "l", "-", "w", "o", "r", "l", "d",
      " ", "s", "c", "e", "n", "a", "r", "i", "o", "s", ".">>
Q1a ==
    <<"W", "h", "a", "t", " ", "a", "r", "e", " ", "t", "h", "e", " ", "m", "a", "i", "n", " ",
      "a", "d", "v", "a", "n", "t", "a", "g", "e", "s", " ", "a", "n", "d", " ", "d", "i", "s",
      "a", "d", "v", "a", "n", "t", "a", "g", "e", "s", " ", "o", "f", " ", "u", "s", "i", "n",
      "g", " ">>
A1a ==
    <<"W", "h", "e", "n", " ", "c", "o", "n", "s", "i", "d", "e", "r", "i", "n", "g", " ">>
A1b ==
    <<",", " ", "i", "t", "'", "s", " ", "i", "m", "p", "o", "r", "t", "a", "n", "t", " ", "t",
      "o", " ", "w", "e", "i", "g", "h", " ", "b", "o", "t", "h", " ", "b", "e", "n", "e", "f",
      "i", "t", "s", " ", "a", "n", "d", " ", "d", "r", "a", "w", "b", "a", "c", "k", "s", " ",
      "i", "n", " ", "t", "h", "e", " ", "c", "o", "n", "t", "e", "x", "t", " ", "o", "f", " ">>
Dot ==
    <<".">>
Q2a ==
    <<"C", "a", "n", " ", "y", "o", "u", " ", "d", "e", "s", "c", "r", "i", "b", "e", " ", "a",
      " ", "r", "e", "a", "l", "-", "w", "o", "r", "l", "d", " ", "s", "c", "e", "n", "a", "r",
      "i", "o", " ", "w", "h", "e", "r", "e", " ">>
Q2b ==
    <<" ", "w", "o", "u", "l", "d", " ", "b", "e", " ", "p", "a", "r", "t", "i", "c", "u", "l",
      "a", "r", "l", "y", " ", "u", "s", "e", "f", "u", "l", " ", "i", "n", " ">>
A2a ==
    <<" ", "c", "a", "n", " ", "b", "e", " ", "a", "p", "p", "l", "i", "e", "d", " ", "i", "n",
      " ", "v", "a", "r", "i", "o", "u", "s", " ", "s", "c", "e", "n", "a", "r", "i", "o", "s",
      " ", "w", "i", "t", "h", "i", "n", " ">>
A2b ==
    <<",", " ", "p", "a", "r", "t", "i", "c", "u", "l", "a", "r", "l", "y", " ", "w", "h", "e",
      "n", " ", "s", "p", "e", "c", "i", "f", "i", "c", " ", "r", "e", "q", "u", "i", "r", "e",
      "m", "e", "n", "t", "s", " ", "n", "e", "e", "d", " ", "t", "o", " ", "b", "e", " ", "m",
      "e", "t", ".">>
Q3a ==
    <<"H", "o", "w", " ", "d", "o", "e", "s", " ">>
Q3b ==
    <<" ", "c", "o", "m", "p", "a", "r", "e", " ", "t", "o", " ", "a", "l", "t", "e", "r", "n",
      "a", "t", "i", "v", "e", " ", "a", "p", "p", "r", "o", "a", "c", "h", "e", "s", " ", "i",
      "n", " ">>
A3a ==
    <<"U", "n", "d", "e", "r", "s", "t", "a", "n", "d", "i", "n", "g", " ", "t", "h", "e", " ",
      "t", "r", "a", "d", "e", "-", "o", "f", "f", "s", " ", "b", "e", "t", "w", "e", "e", "n",
      " ">>
A3b ==
    <<" ", "a", "n", "d", " ", "o", "t", "h", "e", "r", " ", "a", "p", "p", "r", "o", "a", "c",
      "h", "e", "s", " ", "i", "s", " ", "c", "r", "u", "c", "i", "a", "l", " ", "f", "o", "r",
      " ", "m", "a", "k", "i", "n", "g", " ", "i", "n", "f", "o", "r", "m", "e", "d", " ", "d",
      "e", "c", "i", "s", "i", "o", "n", "s", " ", "i", "n", " ">>
Q4a ==
    <<"W", "h", "a", "t", " ", "a", "r", "e", " ", "c", "o", "m", "m", "o", "n", " ", "m", "i",
      "s", "t", "a", "k", "e", "s", " ", "d", "e", "v", "e", "l", "o", "p", "e", "r", "s", " ",
      "m", "a", "k", "e", " ", "w", "h", "e", "n", " ", "i", "m", "p", "l", "e", "m", "e", "n",
      "t", "i", "n", "g", " ">>
A4a ==
    <<"B", "e", "i", "n", "g", " ", "a", "w", "a", "r", "e", " ", "o", "f", " ", "c", "o", "m",
      "m", "o", "n", " ", "p", "i", "t", "f", "a", "l", "l", "s", " ", "h", "e", "l", "p", "s",
      " ", "i", "n", " ", "i", "m", "p", "l", "e", "m", "e", "n", "t", "i", "n", "g", " ">>
A4b ==
    <<" ", "c", "o", "r", "r", "e", "c", "t", "l", "y", " ", "i", "n", " ">>
A4c ==
    <<" ", "p", "r", "o", "j", "e", "c", "t", "s", ".">>

\* The regular-expression class \s (and the characters String.prototype.trim
\* and JSON.parse skip) among the characters used here.
IsSpace(c) == c \in {" ", "\n", "\t", "\r"}

\* String.prototype.trim.
RECURSIVE trimStart(_)
trimStart(s) ==
    IF s # <<>> /\ IsSpace(Head(s)) THEN trimStart(Tail(s)) ELSE s

RECURSIVE trimEnd(_)
trimEnd(s) ==
    IF s # <<>> /\ IsSpace(s[Len(s)]) THEN trimEnd(SubSeq(s, 1, Len(s) - 1)) ELSE s

trim(s) == trimEnd(trimStart(s))

\* Positions of character c in s at or after k.
IndexesFrom(s, c, k) == {j \in k..Len(s) : s[j] = c}

Min(S) == CHOOSE x \in S : \A y \in S : x <= y

\* textData.match(/{[\s\S]*?}/): the span from the first "{" that has a "}"
\* after it to the first such "}"; found is FALSE when match is null.
MatchBraces(s) ==
    IF IndexesFrom(s, "{", 1) = {}
      THEN [found |-> FALSE, text |-> <<>>]
      ELSE LET open == Min(IndexesFrom(s, "{", 1)) IN
           IF IndexesFrom(s, "}", open + 1) = {}
             THEN [found |-> FALSE, text |-> <<>>]
             ELSE [found |-> TRUE,
                   text |-> SubSeq(s, open, Min(IndexesFrom(s, "}", open + 1)))]

(* JSON.parse, for the JSON texts that are one object whose members are      *)
(* strings without escapes or non-negative integers; any other text is a     *)
(* SyntaxError here, so the response texts below stay inside this grammar or *)
(* are invalid JSON altogether.                                              *)

\* The first position at or after k that holds no white space.
RECURSIVE SkipWs(_, _)
SkipWs(s, k) == IF k <= Len(s) /\ IsSpace(s[k]) THEN SkipWs(s, k + 1) ELSE k

JsonFail == [ok |-> FALSE, pos |-> 0, val |-> Undefined]

\* A JSON string starting at k.
JsonString(s, k) ==
    IF k > Len(s) \/ s[k] # "\"" THEN JsonFail
    ELSE IF IndexesFrom(s, "\"", k + 1) = {} THEN JsonFail
    ELSE LET close == Min(IndexesFrom(s, "\"", k + 1)) IN
         IF \E j \in (k + 1)..(close - 1) : s[j] \in {"\\", "\n", "\t", "\r"}
           THEN JsonFail
           ELSE [ok |-> TRUE, pos |-> close + 1, val |-> Str(SubSeq(s, k + 1, close - 1))]

\* The end of the digit run starting at k.
RECURSIVE DigitsEnd(_, _)
DigitsEnd(s, k) ==
    IF k <= Len(s) /\ s[k] \in Range(Digits) THEN DigitsEnd(s, k + 1) ELSE k

\* A JSON number (non-negative integer, no leading zero) starting at k.
JsonNumber(s, k) ==
    LET end == DigitsEnd(s, k) IN
    IF end = k \/ (s[k] = "0" /\ end > k + 1) THEN JsonFail
    ELSE [ok |-> TRUE, pos |-> end,
          val |-> [type |-> "number", chars |-> SubSeq(s, k, end - 1)]]

\* A JSON value starting at k.
JsonValue(s, k) ==
    IF k <= Len(s) /\ s[k] = "\"" THEN JsonString(s, k) ELSE JsonNumber(s, k)

\* The members of an object from k on (k is at a key), added to obj; a
\* repeated key keeps its last value.
RECURSIVE JsonMembers(_, _, _)
JsonMembers(s, k, obj) ==
    LET key == JsonString(s, k) IN
    IF ~key.ok THEN JsonFail ELSE
    LET colon == SkipWs(s, key.pos) IN
    IF colon > Len(s) \/ s[colon] # ":" THEN JsonFail ELSE
    LET v == JsonValue(s, SkipWs(s, colon + 1)) IN
    IF ~v.ok THEN JsonFail ELSE
    LET next == SkipWs(s, v.pos)
        obj2 == [x \in (DOMAIN obj) \cup {key.val.chars} |->
                    IF x = key.val.chars THEN v.val ELSE obj[x]]
    IN  IF next > Len(s) THEN JsonFail
        ELSE IF s[next] = "}" THEN [ok |-> TRUE, pos |-> next + 1, val |-> obj2]
        ELSE IF s[next] = "," THEN JsonMembers(s, SkipWs(s, next + 1), obj2)
        ELSE JsonFail

\* The empty object.
EmptyObject == [x \in {} |-> Undefined]

\* JSON.parse(text): ok is FALSE when it throws a SyntaxError.
JSONparse(s) ==
    LET open == SkipWs(s, 1) IN
    IF open > Len(s) \/ s[open] # "{" THEN JsonFail ELSE
    LET first == SkipWs(s, open + 1) IN
    IF first > Len(s) THEN JsonFail ELSE
    LET body == IF s[first] = "}"
                  THEN [ok |-> TRUE, pos |-> first + 1, val |-> EmptyObject]
                  ELSE JsonMembers(s, first, EmptyObject)
    IN  IF body.ok /\ SkipWs(s, body.pos) = Len(s) + 1 THEN body ELSE JsonFail

\* Property access parsed[key]: undefined when the key is absent.
Field(obj, key) == IF key \in DOMAIN obj THEN obj[key] ELSE Undefined

\* Texts the remote model may generate.
TextFull ==
    <<"{", "\"", "q", "u", "e", "s", "t", "i", "o", "n", "\"", ":", "\"", "Q", "1", "\"", ",",
      "\"", "i", "d", "e", "a", "l", "_", "a", "n", "s", "w", "e", "r", "\"", ":", "\"", "A",
      "1", "\"", "}">>
TextNoIdeal ==
    <<"S", "u", "r", "e", "!", " ", "{", "\"", "q", "u", "e", "s", "t", "i", "o", "n", "\"",
      ":", " ", "\"", "Q", "2", "\"", "}", " ", "b", "y", "e">>
TextNoQuestion ==
    <<"{", " ", "\"", "i", "d", "e", "a", "l", "_", "a", "n", "s", "w", "e", "r", "\"", " ",
      ":", " ", "\"", "A", "3", "\"", " ", "}">>
TextEmptyQuestion ==
    <<"{", "\"", "q", "u", "e", "s", "t", "i", "o", "n", "\"", ":", "\"", "\"", ",", "\"", "i",
      "d", "e", "a", "l", "_", "a", "n", "s", "w", "e", "r", "\"", ":", "\"", "A", "4", "\"",
      "}">>
TextNumberQuestion ==
    <<"{", "\"", "q", "u", "e", "s", "t", "i", "o", "n", "\"", ":", "7", ",", "\"", "i", "d",
      "e", "a", "l", "_", "a", "n", "s", "w", "e", "r", "\"", ":", "\"", "A", "5", "\"", "}">>
TextBraceInString ==
    <<"{", "\"", "q", "u", "e", "s", "t", "i", "o", "n", "\"", ":", "\"", "W", "h", "y", " ",
      "{", "}", "?", "\"", ",", "\"", "i", "d", "e", "a", "l", "_", "a", "n", "s", "w", "e",
      "r", "\"", ":", "\"", "A", "6", "\"", "}">>
TextUndecodable ==
    <<"{", "q", "u", "e", "s", "t", "i", "o", "n", ":", " ", "Q", "7", "}">>
TextRaw ==
    <<" ", "W", "h", "a", "t", " ", "i", "s", " ", "a", " ", "h", "a", "s", "h", " ", "t", "a",
      "b", "l", "e", "?", "\n">>
TextBlank ==
    <<" ", "\n">>

ResponseTexts ==
    { TextFull, TextNoIdeal, TextNoQuestion, TextEmptyQuestion, TextNumberQuestion,
      TextBraceInString, TextUndecodable, TextRaw, TextBlank, <<>> }

\* response.data of a 2xx answer: [{generated_text}], [], {generated_text}, or
\* an object without generated_text.
ResponseData ==
    [shape : {"array", "object"}, text : ResponseTexts]
      \cup { [shape |-> "emptyArray", text |-> <<>>], [shape |-> "other", text |-> <<>>] }

\* How `await axios.post(...)` settles: resolved with data, or rejected with an
\* error that carries a response status (non-2xx), or with none (network, timeout).
RemoteOutcomes ==
    [kind : {"ok"}, status : {200}, data : ResponseData]
      \cup [kind : {"http"}, status : {400, 429, 500, 503},
            data : {[shape |-> "other", text |-> <<>>]}]
      \cup [kind : {"network", "timeout"}, status : {0},
            data : {[shape |-> "other", text |-> <<>>]}]

\* An exception value: its name, and error.response?.status (0 when there is
\* no response).
Thrown(name, status) == [threw |-> TRUE, name |-> name, status |-> status,
                         value |-> [question |-> Undefined, ideal_answer |-> Undefined]]

\* Normal completion of the try block with `return result`.
Returned(value) == [threw |-> FALSE, name |-> "", status |-> 0, value |-> value]

\* Lines 117-124: textData, or the "Unexpected response format" error.
textData(data) ==
    IF data.shape = "array" THEN [ok |-> TRUE, text |-> data.text]
    ELSE IF data.shape = "emptyArray" THEN [ok |-> TRUE, text |-> <<>>]
    ELSE IF data.shape = "object" /\ data.text # <<>> THEN [ok |-> TRUE, text |-> data.text]
    ELSE [ok |-> FALSE, text |-> <<>>]

\* `What are the key concepts of ${subTopic} in ${topic}?`
KeyConceptsQuestion(topic, subTopic) ==
    KeyConceptsPrefix \o subTopic \o InSep \o topic \o QuestionMark

\* Lines 129-146: result from the matched span, or from the raw text.
parseResult(text, topic, subTopic) ==
    LET match == MatchBraces(text) IN
    IF match.found
      THEN LET parsed == JSONparse(match.text) IN
           IF ~parsed.ok THEN Thrown("SyntaxError", 0)
           ELSE Returned(
                  [question |-> IF Truthy(Field(parsed.val, KeyQuestion))
                                  THEN Field(parsed.val, KeyQuestion)
                                  ELSE Str(CouldNotParseQuestion),
                   ideal_answer |-> IF Truthy(Field(parsed.val, KeyIdealAnswer))
                                      THEN Field(parsed.val, KeyIdealAnswer)
                                      ELSE Str(NA)])
      ELSE Returned(
             [question |-> IF trim(text) # <<>>
                             THEN Str(trim(text))
                             ELSE Str(KeyConceptsQuestion(topic, subTopic)),
              ideal_answer |-> Str(GenericIdealAnswer)])

\* Lines 149-152: previousQuestions.push(result.question) and the shift. No
\* binding named previousQuestions exists in the module (line 71 declares
\* recentQuestions), so evaluating the identifier throws a ReferenceError.
pushPreviousQuestions(question) == Thrown("ReferenceError", 0)

\* The try block, lines 86-154.
tryBlock(outcome, topic, subTopic) ==
    IF outcome.kind # "ok" THEN Thrown("AxiosError", outcome.status)
    ELSE IF ~textData(outcome.data).ok THEN Thrown("Error", 0)
    ELSE LET r == parseResult(textData(outcome.data).text, topic, subTopic) IN
         IF r.threw THEN r
         ELSE IF pushPreviousQuestions(r.value.question).threw
                THEN pushPreviousQuestions(r.value.question)
                ELSE r

\* Lines 171-192: the five canned questions.
fallbackQuestions(topic, subTopic) ==
    << [question |-> Str(Q0a \o subTopic \o InSep \o topic \o Q0b),
        ideal_answer |-> Str(subTopic \o A0a \o topic \o A0b)],
       [question |-> Str(Q1a \o subTopic \o InSep \o topic \o QuestionMark),
        ideal_answer |-> Str(A1a \o subTopic \o A1b \o topic \o Dot)],
       [question |-> Str(Q2a \o subTopic \o Q2b \o topic \o QuestionMark),
        ideal_answer |-> Str(subTopic \o A2a \o topic \o A2b)],
       [question |-> Str(Q3a \o subTopic \o Q3b \o topic \o QuestionMark),
        ideal_answer |-> Str(A3a \o subTopic \o A3b \o topic \o Dot)],
       [question |-> Str(Q4a \o subTopic \o InSep \o topic \o QuestionMark),
        ideal_answer |-> Str(A4a \o subTopic \o A4b \o topic \o A4c)] >>

\* The pair returned for a 503.
modelLoadingResult == [question |-> Str(ModelLoadingQuestion), ideal_answer |-> Str(NA)]

\* The status test widened to every 5xx status.
isModelLoadingAnyServerError(error) == error.status >= 500

\* if (error.response?.status === 503)
isModelLoading(error) == error.status = 503

\* The catch block reading error.response.status without optional chaining:
\* an error that carries no response makes the catch block itself throw, so
\* no result object is returned.
catchBlockWithoutOptionalChaining(error, topic, subTopic, seconds) ==
    IF error.status = 0 THEN [question |-> Undefined, ideal_answer |-> Undefined]
    ELSE IF error.status = 503 THEN modelLoadingResult
    ELSE LET canned == fallbackQuestions(topic, subTopic)
         IN  canned[(seconds % Len(canned)) + 1]

\* The catch block indexing by Date.now() itself, the division by 1000 left
\* out: milliseconds is seconds * 1000 (plus a remainder taken as 0).
catchBlockByMilliseconds(error, topic, subTopic, seconds) ==
    IF error.status = 503 THEN modelLoadingResult
    ELSE LET canned == fallbackQuestions(topic, subTopic)
         IN  canned[((seconds * 1000) % Len(canned)) + 1]

\* The catch block, lines 155-198; seconds is Math.floor(Date.now() / 1000).
catchBlock(error, topic, subTopic, seconds) ==
    IF isModelLoading(error) THEN modelLoadingResult
    ELSE LET canned == fallbackQuestions(topic, subTopic)
         IN  canned[(seconds % Len(canned)) + 1]

\* generateQuestion(topic, subTopic, difficulty), once axios.post has settled.
generateQuestion(outcome, topic, subTopic, seconds) ==
    IF tryBlock(outcome, topic, subTopic).threw
      THEN catchBlock(tryBlock(outcome, topic, subTopic), topic, subTopic, seconds)
      ELSE tryBlock(outcome, topic, subTopic).value

(* ------------------------------- state -------------------------------- *)

\* The request-handler slots that run evaluateAnswer.
Evals == {"e1", "e2"}

\* The app.listen callback, which pre-warms the model once.
Prewarm == "prewarm"

\* Everything that calls EmbeddingPipeline.getInstance().
Callers == Evals \cup {Prewarm}

\* The extractor has not been called (yet) in this request.
NoEmbed == [kind |-> "none", milli |-> 0]

\* No result yet.
NoResult == [feedback |-> <<>>, score |-> -1]

VARIABLES
    instance,       \* EmbeddingPipeline.instance
    loading,        \* EmbeddingPipeline.loading
    loadError,      \* EmbeddingPipeline.loadError
    pc,             \* where each caller stands
    userAnswer,     \* evaluateAnswer's first argument, per handler
    idealAnswer,    \* evaluateAnswer's second argument, per handler
    extractor,      \* the value getInstance() resolved to, per caller
    result,         \* the object evaluateAnswer returned, per handler
    embedOutcome,   \* how the extractor calls and cos_sim ended, per handler
    loadsStarted,   \* pipeline(task, model) calls made so far
    loadsCompleted, \* pipeline(task, model) calls settled so far
    observedLoad    \* the load in flight when the caller's getInstance() began, or 0

evalVars ==
    <<instance, loading, loadError, pc, userAnswer, idealAnswer, extractor,
      result, embedOutcome, loadsStarted, loadsCompleted, observedLoad>>

VARIABLES
    gpc,              \* where the /api/interview/start handler stands
    topic,            \* generateQuestion's arguments
    subTopic,
    difficulty,
    randomVariation,  \* the verb drawn for the prompt
    randomSeed,       \* the "Question ID" drawn for the prompt
    response,         \* how axios.post settled
    seconds,          \* Math.floor(Date.now() / 1000) when the call settled
    aiResponse,       \* the object generateQuestion returned
    recentQuestions   \* the Map of line 71: declared, never read or written

genVars ==
    <<gpc, topic, subTopic, difficulty, randomVariation, randomSeed, response,
      seconds, aiResponse, recentQuestions>>

VARIABLES
    scorerUser,       \* fallbackEvaluation's arguments when called on its own
    scorerIdeal,
    scorerResult,     \* what the latest such call returned
    scorerPrevious    \* what the call before it returned

scorerVars == <<scorerUser, scorerIdeal, scorerResult, scorerPrevious>>

vars ==
    <<instance, loading, loadError, pc, userAnswer, idealAnswer, extractor,
      result, embedOutcome, loadsStarted, loadsCompleted, observedLoad,
      gpc, topic, subTopic, difficulty, randomVariation, randomSeed, response,
      seconds, aiResponse, recentQuestions,
      scorerUser, scorerIdeal, scorerResult, scorerPrevious>>

InitEval ==
    /\ instance = Null
    /\ loading = FALSE
    /\ loadError = Null
    /\ pc = [c \in Callers |-> "idle"]
    /\ userAnswer = [e \in Evals |-> Undefined]
    /\ idealAnswer = [e \in Evals |-> Undefined]
    /\ extractor = [c \in Callers |-> Null]
    /\ result = [e \in Evals |-> NoResult]
    /\ embedOutcome = [e \in Evals |-> NoEmbed]
    /\ loadsStarted = 0
    /\ loadsCompleted = 0
    /\ observedLoad = [c \in Callers |-> 0]

(* --------------------- EmbeddingPipeline.getInstance ------------------ *)

(* Every `await` ends a step: the code up to it runs without interruption, *)
(* and its continuation is a later step, before which the steps of other   *)
(* callers may run. Node resumes a continuation whose promise is already    *)
(* settled before it serves another request, so the interleavings below    *)
(* include every schedule of the event loop.                                *)

\* The load guard with a failed load made final.
StartsLoadUnlessFailed == instance = Null /\ ~loading /\ loadError = Null

\* The load guard without its test of loading.
StartsLoadIgnoringLoading == instance = Null

\* The load guard without its test of instance.
StartsLoadIgnoringInstance == ~loading

\* if (this.instance === null && !this.loading)
StartsLoad == instance = Null /\ ~loading

\* The synchronous part of getInstance() run by caller c: either it sets
\* loading and suspends at `await pipeline(...)`, or it returns this.instance.
getInstance(c) ==
    IF StartsLoad
      THEN /\ loadsStarted < MaxLoads
           /\ loading' = TRUE
           /\ loadsStarted' = loadsStarted + 1
           /\ pc' = [pc EXCEPT ![c] = "loading"]
           /\ observedLoad' = [observedLoad EXCEPT ![c] = 0]
           /\ UNCHANGED extractor
      ELSE /\ extractor' = [extractor EXCEPT ![c] = instance]
           /\ pc' = [pc EXCEPT ![c] = "awaitInstance"]
           /\ observedLoad' =
                [observedLoad EXCEPT ![c] = IF loading THEN loadsStarted ELSE 0]
           /\ UNCHANGED <<loading, loadsStarted>>

\* A successful load that leaves loadError as it was (line 53 left out).
LoadSucceedKeepingError(c) ==
    /\ pc[c] = "loading"
    /\ instance' = Extractor
    /\ loading' = FALSE
    /\ extractor' = [extractor EXCEPT ![c] = instance']
    /\ pc' = [pc EXCEPT ![c] = "awaitInstance"]
    /\ loadsCompleted' = loadsCompleted + 1
    /\ UNCHANGED <<loadError, userAnswer, idealAnswer, result, embedOutcome,
                   loadsStarted, observedLoad>>
    /\ UNCHANGED genVars
    /\ UNCHANGED scorerVars

\* pipeline(task, model) resolved: lines 51-53, the finally block and the return.
LoadSucceed(c) ==
    /\ pc[c] = "loading"
    /\ instance' = Extractor
    /\ loadError' = Null
    /\ loading' = FALSE
    /\ extractor' = [extractor EXCEPT ![c] = instance']
    /\ pc' = [pc EXCEPT ![c] = "awaitInstance"]
    /\ loadsCompleted' = loadsCompleted + 1
    /\ UNCHANGED <<userAnswer, idealAnswer, result, embedOutcome, loadsStarted,
                   observedLoad>>
    /\ UNCHANGED genVars
    /\ UNCHANGED scorerVars

\* A failed load without the finally block: loading is left set.
LoadFailWithoutFinally(c) ==
    /\ pc[c] = "loading"
    /\ loadError' = LoadErr
    /\ instance' = Null
    /\ extractor' = [extractor EXCEPT ![c] = instance']
    /\ pc' = [pc EXCEPT ![c] = "awaitInstance"]
    /\ loadsCompleted' = loadsCompleted + 1
    /\ UNCHANGED <<loading, userAnswer, idealAnswer, result, embedOutcome,
                   loadsStarted, observedLoad>>
    /\ UNCHANGED genVars
    /\ UNCHANGED scorerVars

\* pipeline(task, model) rejected: the catch block, the finally block and the return.
LoadFail(c) ==
    /\ pc[c] = "loading"
    /\ loadError' = LoadErr
    /\ instance' = Null
    /\ loading' = FALSE
    /\ extractor' = [extractor EXCEPT ![c] = instance']
    /\ pc' = [pc EXCEPT ![c] = "awaitInstance"]
    /\ loadsCompleted' = loadsCompleted + 1
    /\ UNCHANGED <<userAnswer, idealAnswer, result, embedOutcome, loadsStarted,
                   observedLoad>>
    /\ UNCHANGED genVars
    /\ UNCHANGED scorerVars

\* app.listen's callback: EmbeddingPipeline.getInstance().catch(...)
PrewarmCall ==
    /\ pc[Prewarm] = "idle"
    /\ getInstance(Prewarm)
    /\ UNCHANGED <<instance, loadError, userAnswer, idealAnswer, result, embedOutcome,
                   loadsCompleted>>
    /\ UNCHANGED genVars
    /\ UNCHANGED scorerVars

\* The pre-warm promise settles; getInstance never rejects, so .catch never runs.
PrewarmSettled ==
    /\ pc[Prewarm] = "awaitInstance"
    /\ pc' = [pc EXCEPT ![Prewarm] = "done"]
    /\ observedLoad' = [observedLoad EXCEPT ![Prewarm] = 0]
    /\ UNCHANGED <<instance, loading, loadError, userAnswer, idealAnswer, extractor,
                   result, embedOutcome, loadsStarted, loadsCompleted>>
    /\ UNCHANGED genVars
    /\ UNCHANGED scorerVars

(* ------------------------ evaluateAnswer steps ------------------------ *)

\* A request arrives: the guard, then either the early return or getInstance().
EvalCall(e, u, i) ==
    /\ pc[e] = "idle"
    /\ userAnswer' = [userAnswer EXCEPT ![e] = u]
    /\ idealAnswer' = [idealAnswer EXCEPT ![e] = i]
    /\ IF evaluateAnswerGuard(u, i)
         THEN /\ result' = [result EXCEPT ![e] = guardResult]
              /\ pc' = [pc EXCEPT ![e] = "done"]
              /\ UNCHANGED <<loading, loadsStarted, extractor, observedLoad>>
         ELSE /\ getInstance(e)
              /\ UNCHANGED result
    /\ UNCHANGED <<instance, loadError, loadsCompleted, embedOutcome>>
    /\ UNCHANGED genVars
    /\ UNCHANGED scorerVars

\* The fallback call with its two arguments swapped.
returnFallbackSwapped(e) ==
    /\ result' = [result EXCEPT ![e] =
          fallbackEvaluation(idealAnswer[e].chars, userAnswer[e].chars)]
    /\ pc' = [pc EXCEPT ![e] = "done"]

\* return fallbackEvaluation(userAnswer, idealAnswer), at line 212 and line 249.
returnFallback(e) ==
    /\ result' = [result EXCEPT ![e] =
          fallbackEvaluation(userAnswer[e].chars, idealAnswer[e].chars)]
    /\ pc' = [pc EXCEPT ![e] = "done"]

\* `await EmbeddingPipeline.getInstance()` resumes: the null test, and on a
\* handle the first extractor call.
EvalResume(e) ==
    /\ pc[e] = "awaitInstance"
    /\ IF extractor[e] = Null
         THEN returnFallback(e)
         ELSE /\ pc' = [pc EXCEPT ![e] = "embedUser"]
              /\ UNCHANGED result
    /\ observedLoad' = [observedLoad EXCEPT ![e] = 0]
    /\ UNCHANGED <<instance, loading, loadError, userAnswer, idealAnswer, extractor,
                   embedOutcome, loadsStarted, loadsCompleted>>
    /\ UNCHANGED genVars
    /\ UNCHANGED scorerVars

\* `await extractor(userAnswer, ...)` settles: resolved, or rejected into the
\* catch block.
EmbedUser(e, ok) ==
    /\ pc[e] = "embedUser"
    /\ IF ok
         THEN /\ pc' = [pc EXCEPT ![e] = "embedIdeal"]
              /\ UNCHANGED result
         ELSE returnFallback(e)
    /\ embedOutcome' = [embedOutcome EXCEPT ![e] =
          IF ok THEN NoEmbed ELSE [kind |-> "rejectUser", milli |-> 0]]
    /\ UNCHANGED <<instance, loading, loadError, userAnswer, idealAnswer, extractor,
                   loadsStarted, loadsCompleted, observedLoad>>
    /\ UNCHANGED genVars
    /\ UNCHANGED scorerVars

\* The second half of the scoring with the cos_sim call outside the try block:
\* an exception of cos_sim leaves evaluateAnswer without a result.
EmbedIdealUncaught(e, outcome) ==
    /\ pc[e] = "embedIdeal"
    /\ IF outcome.kind = "sim"
         THEN /\ result' = [result EXCEPT ![e] = similarityResult(outcome.milli)]
              /\ pc' = [pc EXCEPT ![e] = "done"]
         ELSE IF outcome.kind = "throw"
                THEN /\ pc' = [pc EXCEPT ![e] = "done"]
                     /\ UNCHANGED result
                ELSE returnFallback(e)
    /\ embedOutcome' = [embedOutcome EXCEPT ![e] = outcome]
    /\ UNCHANGED <<instance, loading, loadError, userAnswer, idealAnswer, extractor,
                   loadsStarted, loadsCompleted, observedLoad>>
    /\ UNCHANGED genVars
    /\ UNCHANGED scorerVars

\* `await extractor(idealAnswer, ...)` settles, then cos_sim and the feedback:
\* the extractor rejects, or cos_sim throws, or cos_sim returns a similarity.
EmbedIdeal(e, outcome) ==
    /\ pc[e] = "embedIdeal"
    /\ IF outcome.kind = "sim"
         THEN /\ result' = [result EXCEPT ![e] = similarityResult(outcome.milli)]
              /\ pc' = [pc EXCEPT ![e] = "done"]
         ELSE returnFallback(e)
    /\ embedOutcome' = [embedOutcome EXCEPT ![e] = outcome]
    /\ UNCHANGED <<instance, loading, loadError, userAnswer, idealAnswer, extractor,
                   loadsStarted, loadsCompleted, observedLoad>>
    /\ UNCHANGED genVars
    /\ UNCHANGED scorerVars

\* The route handler sends the response; the slot is free for the next request.
EvalReturn(e) ==
    /\ pc[e] = "done"
    /\ pc' = [pc EXCEPT ![e] = "idle"]
    /\ userAnswer' = [userAnswer EXCEPT ![e] = Undefined]
    /\ idealAnswer' = [idealAnswer EXCEPT ![e] = Undefined]
    /\ extractor' = [extractor EXCEPT ![e] = Null]
    /\ result' = [result EXCEPT ![e] = NoResult]
    /\ embedOutcome' = [embedOutcome EXCEPT ![e] = NoEmbed]
    /\ UNCHANGED <<instance, loading, loadError, loadsStarted, loadsCompleted,
                   observedLoad>>
    /\ UNCHANGED genVars
    /\ UNCHANGED scorerVars

(* ---------------------- generateQuestion requests --------------------- *)

\* Cap on Math.floor(Date.now() / 1000) as read by the catch block.
MaxSeconds == 6

\* topic values the route lets through (it rejects falsy ones).
Topics == { <<"J", "S">>, <<"D", "b">> }

\* subTopic values the route lets through.
SubTopics == { <<"i", "o">>, <<"A", "P", "I">> }

\* difficulty is optional in the request body.
Difficulties == { Undefined, Str(<<"e", "a", "s", "y">>) }

\* const variations = ["Create", "Generate", "Provide", "Design", "Formulate"]
variations == <<"Create", "Generate", "Provide", "Design", "Formulate">>

\* Math.floor(Math.random() * 10000): the two ends of 0..9999.
RandomSeeds == {0, 9999}

\* No axios outcome yet.
NoOutcome == [kind |-> "none", status |-> 0, data |-> [shape |-> "other", text |-> <<>>]]

\* No generateQuestion result yet.
NoQuestion == [question |-> Undefined, ideal_answer |-> Undefined]

InitGen ==
    /\ gpc = "idle"
    /\ topic = <<>>
    /\ subTopic = <<>>
    /\ difficulty = Undefined
    /\ randomVariation = ""
    /\ randomSeed = 0
    /\ response = NoOutcome
    /\ seconds = 0
    /\ aiResponse = NoQuestion
    /\ recentQuestions = <<>>

\* The route calls generateQuestion: the prompt is built and axios.post awaited.
GenCall(t, st, d, v, seed) ==
    /\ gpc = "idle"
    /\ gpc' = "awaitPost"
    /\ topic' = t
    /\ subTopic' = st
    /\ difficulty' = d
    /\ randomVariation' = variations[v]
    /\ randomSeed' = seed
    /\ UNCHANGED <<response, seconds, aiResponse, recentQuestions>>
    /\ UNCHANGED evalVars
    /\ UNCHANGED scorerVars

\* axios.post settles and the rest of generateQuestion runs to its return.
GenSettle(outcome, now) ==
    /\ gpc = "awaitPost"
    /\ gpc' = "done"
    /\ response' = outcome
    /\ seconds' = now
    /\ aiResponse' = generateQuestion(outcome, topic, subTopic, now)
    /\ UNCHANGED <<topic, subTopic, difficulty, randomVariation, randomSeed,
                   recentQuestions>>
    /\ UNCHANGED evalVars
    /\ UNCHANGED scorerVars

\* res.json(aiResponse): the handler is free for the next request.
GenReturn ==
    /\ gpc = "done"
    /\ gpc' = "idle"
    /\ topic' = <<>>
    /\ subTopic' = <<>>
    /\ difficulty' = Undefined
    /\ randomVariation' = ""
    /\ randomSeed' = 0
    /\ response' = NoOutcome
    /\ seconds' = 0
    /\ aiResponse' = NoQuestion
    /\ UNCHANGED recentQuestions
    /\ UNCHANGED evalVars
    /\ UNCHANGED scorerVars

(* ---------------------- fallbackEvaluation alone ---------------------- *)

\* No call of fallbackEvaluation on its own is under way.
InitScorer ==
    /\ scorerUser = <<>>
    /\ scorerIdeal = <<>>
    /\ scorerResult = NoResult
    /\ scorerPrevious = NoResult

\* The arguments of the calls are drawn.
InitScorerInputs ==
    /\ scorerUser \in ScorerUserAnswers
    /\ scorerIdeal \in ScorerIdealAnswers
    /\ scorerResult = NoResult
    /\ scorerPrevious = NoResult

\* The start of the scorer called on its own: no request is in progress.
InitScorerAlone == InitEval /\ InitGen /\ InitScorerInputs

\* fallbackEvaluation(userAnswer, idealAnswer) is called for the first time.
ScorerCall ==
    /\ scorerResult = NoResult
    /\ scorerResult' = fallbackEvaluation(scorerUser, scorerIdeal)
    /\ UNCHANGED <<scorerUser, scorerIdeal, scorerPrevious>>
    /\ UNCHANGED evalVars
    /\ UNCHANGED genVars

\* fallbackEvaluation is called once more with the same arguments.
ScorerCallAgain ==
    /\ scorerResult # NoResult
    /\ scorerPrevious = NoResult
    /\ scorerPrevious' = scorerResult
    /\ scorerResult' = fallbackEvaluation(scorerUser, scorerIdeal)
    /\ UNCHANGED <<scorerUser, scorerIdeal>>
    /\ UNCHANGED evalVars
    /\ UNCHANGED genVars

(* --------------------------- specifications --------------------------- *)

Init == InitEval /\ InitGen /\ InitScorer

\* The steps of the evaluation side: the singleton, the pre-warm call and the
\* /api/interview/evaluate handlers.
NextEval ==
    \/ PrewarmCall
    \/ PrewarmSettled
    \/ \E c \in Callers : LoadSucceed(c)
    \/ \E c \in Callers : LoadFail(c)
    \/ \E e \in Evals, u \in UserAnswers, i \in IdealAnswers : EvalCall(e, u, i)
    \/ \E e \in Evals : EvalResume(e)
    \/ \E e \in Evals, ok \in BOOLEAN : EmbedUser(e, ok)
    \/ \E e \in Evals, o \in EmbedOutcomes : EmbedIdeal(e, o)
    \/ \E e \in Evals : EvalReturn(e)

\* The steps of the generation side: the /api/interview/start handler.
NextGen ==
    \/ \E t \in Topics, st \in SubTopics, d \in Difficulties,
         v \in DOMAIN variations, seed \in RandomSeeds : GenCall(t, st, d, v, seed)
    \/ \E o \in RemoteOutcomes, now \in 0..MaxSeconds : GenSettle(o, now)
    \/ GenReturn

\* The steps of the keyword scorer called on its own.
NextScorer ==
    \/ ScorerCall
    \/ ScorerCallAgain

Next == NextEval \/ NextGen

\* The whole process. The two sides share no variable, so a claim about one
\* side is checked under that side's specification.
Spec == Init /\ [][Next]_vars

SpecEval == Init /\ [][NextEval]_vars

SpecGen == Init /\ [][NextGen]_vars

\* fallbackEvaluation as a pure function: its arguments are drawn at the start
\* and the function is applied to them, twice.
SpecScorer == InitScorerAlone /\ [][NextScorer]_vars

\* The evaluation side under the assumption that every pipeline() promise
\* settles: a caller suspended at `await pipeline(...)` is resumed in the end.
FairSpecEval ==
    SpecEval /\ WF_vars(\E c \in Callers : LoadSucceed(c) \/ LoadFail(c))

(* ------------------------------- claims ------------------------------- *)

\* A value that is a string of at least one character.
IsNonEmptyString(v) == v.type = "string" /\ Len(v.chars) > 0

\* C1: whatever way the remote call settles (a JSON object, text without one,
\* undecodable JSON, an unexpected shape, a network error, a timeout, a 503 or
\* another status), generateQuestion returns an object whose question and
\* ideal_answer are both non-empty strings.
C1_NonEmptyResult ==
    gpc = "done" =>
        /\ IsNonEmptyString(aiResponse.question)
        /\ IsNonEmptyString(aiResponse.ideal_answer)

\* C1 witness: the remote answered with undecodable JSON and a result came back.
C1_Witness ==
    /\ gpc = "done"
    /\ response.kind = "ok"
    /\ response.data.text = TextUndecodable
    /\ IsNonEmptyString(aiResponse.question)

C3_AtMostOneLoadInFlight ==
    /\ [](Cardinality({c \in Callers : pc[c] = "loading"}) <= 1)
    /\ [][loading => loadsStarted' = loadsStarted]_vars

\* C3 witness: a load is in flight and a second caller, having seen
\* loading = true, has returned from getInstance without starting one.
C3_Witness ==
    /\ loading
    /\ \E c \in Callers : pc[c] = "loading"
    /\ \E c \in Callers : pc[c] = "awaitInstance" /\ observedLoad[c] = loadsStarted

\* C4 as stated: a getInstance call that began while a load was in flight does
\* not return before that load has completed.
C4_AwaitsInFlightLoad ==
    \A c \in Callers :
        (pc[c] = "awaitInstance" /\ observedLoad[c] > 0)
            => loadsCompleted >= observedLoad[c]

\* C5: once instance is non-null it stays that handle, no further load is
\* started, and every getInstance call made from then on returns the handle.
C5_ReadyIsTerminal ==
    [][instance = Extractor =>
          /\ instance' = Extractor
          /\ loadsStarted' = loadsStarted
          /\ \A c \in Callers :
                (pc[c] = "idle" /\ pc'[c] \notin {"idle", "done"})
                    => pc'[c] = "awaitInstance" /\ extractor'[c] = Extractor]_vars

\* C5 witness: one load was made and both handlers are embedding with its
\* handle, so at least one of them was served the cached handle.
C5_Witness ==
    /\ instance = Extractor
    /\ loadsStarted = 1
    /\ \A e \in Evals : pc[e] = "embedUser" /\ extractor[e] = Extractor

\* C6 as stated: when the remote text holds a decodable JSON object, the result
\* is that object's question and ideal_answer, with "Could not parse question"
\* and "N/A" for a missing field.
C6_ParsedFieldsReturned ==
    (/\ gpc = "done"
     /\ response.kind = "ok"
     /\ textData(response.data).ok
     /\ MatchBraces(textData(response.data).text).found
     /\ JSONparse(MatchBraces(textData(response.data).text).text).ok)
    => LET parsed == JSONparse(MatchBraces(textData(response.data).text).text).val IN
       /\ aiResponse.question =
            IF KeyQuestion \in DOMAIN parsed /\ parsed[KeyQuestion] # Str(<<>>)
              THEN parsed[KeyQuestion] ELSE Str(CouldNotParseQuestion)
       /\ aiResponse.ideal_answer =
            IF KeyIdealAnswer \in DOMAIN parsed /\ parsed[KeyIdealAnswer] # Str(<<>>)
              THEN parsed[KeyIdealAnswer] ELSE Str(NA)

\* C7 as stated: when the remote text is non-blank and holds no {...} span,
\* the result is the trimmed text as question and the generic ideal answer.
C7_RawTextReturned ==
    (/\ gpc = "done"
     /\ response.kind = "ok"
     /\ textData(response.data).ok
     /\ trim(textData(response.data).text) # <<>>
     /\ ~MatchBraces(textData(response.data).text).found)
    => /\ aiResponse.question = Str(trim(textData(response.data).text))
       /\ aiResponse.ideal_answer = Str(GenericIdealAnswer)

\* C8: a failed generateQuestion returns the "model is loading" pair exactly
\* when the failure is a response with status 503, and one of the five canned
\* templates for every other failure.
C8_LoadingPairIffStatus503 ==
    (gpc = "done" /\ tryBlock(response, topic, subTopic).threw) =>
        IF response.kind = "http" /\ response.status = 503
          THEN aiResponse = [question |-> Str(ModelLoadingQuestion),
                             ideal_answer |-> Str(NA)]
          ELSE /\ aiResponse.question # Str(ModelLoadingQuestion)
               /\ aiResponse \in Range(fallbackQuestions(topic, subTopic))

\* C8 witness: a 503 was answered with the loading pair.
C8_Witness ==
    /\ gpc = "done"
    /\ response.kind = "http"
    /\ response.status = 503
    /\ aiResponse.question = Str(ModelLoadingQuestion)

\* The inputs of the early return: an empty or missing answer, or the "N/A"
\* ideal answer.
C9_GuardInputs(u, i) ==
    \/ u \in {Undefined, Str(<<>>)}
    \/ i \in {Undefined, Str(<<>>), Str(NA)}

\* C9: on such inputs evaluateAnswer returns {feedback: "Could not evaluate
\* answer.", score: 0} in the calling step, starts no load and leaves
\* instance, loading and loadError as they were.
C9_GuardLeavesSingletonAlone ==
    [][\A e \in Evals :
          (pc[e] = "idle" /\ pc'[e] # "idle"
             /\ C9_GuardInputs(userAnswer'[e], idealAnswer'[e]))
          => /\ pc'[e] = "done"
             /\ result'[e] = [feedback |-> CouldNotEvaluate, score |-> 0]
             /\ instance' = instance
             /\ loading' = loading
             /\ loadError' = loadError
             /\ loadsStarted' = loadsStarted]_vars

\* C9 witness: the early return was taken for ideal answer "N/A" while a load
\* was in flight.
C9_Witness ==
    \E e \in Evals :
        /\ pc[e] = "done"
        /\ idealAnswer[e] = Str(NA)
        /\ IsNonEmptyString(userAnswer[e])
        /\ result[e] = [feedback |-> CouldNotEvaluate, score |-> 0]
        /\ loading

\* C10: for non-empty strings u and i with i # "N/A", when getInstance yields
\* null the result of evaluateAnswer(u, i) is fallbackEvaluation(u, i).
C10_NullExtractorIsFallback ==
    \A e \in Evals :
        (/\ pc[e] = "done"
         /\ IsNonEmptyString(userAnswer[e])
         /\ IsNonEmptyString(idealAnswer[e])
         /\ idealAnswer[e] # Str(NA)
         /\ extractor[e] = Null)
        => result[e] = fallbackEvaluation(userAnswer[e].chars, idealAnswer[e].chars)

\* C10 witness: a call that got null from getInstance returned a keyword score.
C10_Witness ==
    \E e \in Evals :
        /\ pc[e] = "done"
        /\ IsNonEmptyString(userAnswer[e])
        /\ idealAnswer[e] = Str(<<"a", ",", "c", " ", "C">>)
        /\ extractor[e] = Null
        /\ result[e].score = 33

(* ---- C11 ---- *)

\* C11 as stated: every result evaluateAnswer returns, whichever path built
\* it, has an integer score between 0 and 100.
C11_ScoreWithinRange ==
    \A e \in Evals :
        pc[e] = "done" => result[e].score \in 0..100

(* ---- C12 ---- *)

\* The scorer that built the result of handler e.
C12_Scorer(e) ==
    IF embedOutcome[e].kind = "sim" THEN "embedding"
    ELSE IF result[e].feedback # CouldNotEvaluate THEN "keyword"
    ELSE "none"

\* C12 as stated: two results of the same scorer with the same score never
\* carry different feedback tiers.
C12_TierIsFunctionOfScore ==
    \A e1, e2 \in Evals :
        /\ pc[e1] = "done" /\ pc[e2] = "done"
        /\ C12_Scorer(e1) = C12_Scorer(e2) /\ C12_Scorer(e1) # "none"
        /\ result[e1].score = result[e2].score
        => result[e1].feedback = result[e2].feedback

\* The tier the embedding scorer attaches to a raw similarity (thousandths).
C12_TierOfSimilarity(milli) ==
    CASE milli > 800 -> FeedbackExcellent
      [] milli > 600 /\ milli <= 800 -> FeedbackGoodJob
      [] milli > 400 /\ milli <= 600 -> FeedbackOnTrack
      [] milli <= 400 -> FeedbackMissing

\* The tier the keyword scorer attaches to a reported score.
C12_TierOfScore(s) ==
    CASE s > 70 -> FallbackGood
      [] s > 40 /\ s <= 70 -> FallbackOnTrack
      [] s <= 40 -> FallbackNeedsDetail

\* C12 as amended: the keyword scorer's tier is a function of the reported
\* score (above 70, above 40, the rest), while the embedding scorer's tier is a
\* function of the unrounded similarity (above 0.8, above 0.6, above 0.4, the
\* rest) and so not of the reported score.
C12_TierIsFunctionOfScorerInput ==
    \A e \in Evals :
        pc[e] = "done" =>
            /\ C12_Scorer(e) = "embedding" =>
                 result[e].feedback =
                     SimilarityScorePrefix \o NumToChars(result[e].score)
                       \o SimilarityScoreSuffix
                       \o C12_TierOfSimilarity(embedOutcome[e].milli)
            /\ C12_Scorer(e) = "keyword" =>
                 result[e].feedback =
                     EstimatedScorePrefix \o NumToChars(result[e].score)
                       \o EstimatedScoreSuffix \o C12_TierOfScore(result[e].score)

\* C12 witness: similarities 0.800 and 0.804 were both reported as 80, with
\* different tiers.
C12_Witness ==
    /\ pc["e1"] = "done" /\ pc["e2"] = "done"
    /\ embedOutcome["e1"] = [kind |-> "sim", milli |-> 800]
    /\ embedOutcome["e2"] = [kind |-> "sim", milli |-> 804]
    /\ result["e1"].score = 80 /\ result["e2"].score = 80
    /\ result["e1"].feedback # result["e2"].feedback

(* ---- C13 ---- *)

\* The extractor or cos_sim threw in the request of handler e.
C13_EmbeddingThrew(e) == embedOutcome[e].kind \in {"rejectUser", "reject", "throw"}

\* C13: when the first or the second extractor call rejects, or cos_sim throws,
\* after a successful load, evaluateAnswer still returns, its result is exactly
\* fallbackEvaluation(userAnswer, idealAnswer), and the singleton stays ready.
C13_ThrowFallsBackAndStaysReady ==
    /\ \A e \in Evals :
          C13_EmbeddingThrew(e) =>
              /\ pc[e] = "done"
              /\ extractor[e] = Extractor
              /\ result[e] = fallbackEvaluation(userAnswer[e].chars, idealAnswer[e].chars)
              /\ instance = Extractor /\ ~loading /\ loadError = Null
    /\ \A e \in Evals : pc[e] = "done" => result[e] # NoResult

\* C13 witness: the three ways of throwing were all seen to end in a keyword
\* score: here cos_sim threw in one request and the first extractor call
\* rejected in the other.
C13_Witness ==
    /\ embedOutcome["e1"].kind = "throw" /\ pc["e1"] = "done"
    /\ embedOutcome["e2"].kind = "rejectUser" /\ pc["e2"] = "done"
    /\ Len(result["e1"].feedback) > 0 /\ Len(result["e2"].feedback) > 0
    /\ instance = Extractor

(* ---- C14 ---- *)

C16_ParsedQuestionInHistory ==
    /\ Len(recentQuestions) <= 5
    /\ (/\ gpc = "done"
        /\ response.kind = "ok"
        /\ textData(response.data).ok
        /\ ~parseResult(textData(response.data).text, topic, subTopic).threw)
       => /\ Len(recentQuestions) > 0
          /\ recentQuestions[Len(recentQuestions)] =
               parseResult(textData(response.data).text, topic, subTopic).value.question

(* ---- C17 ---- *)

\* C17: the step in which a load attempt ends records its outcome (the handle,
\* or null with the error) and clears loading, and loading is cleared in no
\* other step; when every load attempt ends, loading leads to not loading.
C17_LoadingAlwaysEnds ==
    /\ [][/\ \A c \in Callers :
               (pc[c] = "loading" /\ pc'[c] # "loading")
               => /\ loading /\ ~loading'
                  /\ \/ instance' = Extractor /\ loadError' = Null
                     \/ instance' = Null /\ loadError' = LoadErr
                  /\ extractor'[c] = instance'
          /\ (loading /\ ~loading')
               => \E c \in Callers : pc[c] = "loading" /\ pc'[c] # "loading"]_vars
    /\ (loading ~> ~loading)

\* C17 witness: a load attempt failed and loading is clear again, the error
\* being on record.
C17_Witness ==
    /\ loadsStarted = 1 /\ loadsCompleted = 1
    /\ ~loading
    /\ instance = Null
    /\ loadError = LoadErr

(* ---- C18 ---- *)

\* C18: between steps, loading implies that instance is null, and a non-null
\* instance implies that loading is false and loadError is null.
C18_SingletonFieldsConsistent ==
    /\ loading => instance = Null
    /\ instance # Null => ~loading /\ loadError = Null

\* C18 witness: two load attempts failed and the third succeeded, which
\* cleared the error on record.
C18_Witness ==
    /\ loadsCompleted = 3
    /\ instance = Extractor
    /\ loadError = Null
    /\ ~loading

(* ---- C15 ---- *)

\* Halves rounded up: the integer nearest to 100 * m / n.
C15_Round(m, n) == (200 * m + n) \div (2 * n)

\* C15 as stated: with n the word tokens of the ideal answer and m those that
\* occur among the user's tokens, the score is round(100 * m / n); without
\* an ideal token the result is {"Could not evaluate answer.", 0}; a second
\* call with the same arguments returns the same result.
C15_ScoreIsRoundedShare ==
    LET ideal == idealWords(scorerIdeal)
        user  == userWords(scorerUser)
        n == Len(ideal)
        m == Cardinality({k \in 1..n : ideal[k] \in user})
    IN  /\ scorerResult # NoResult =>
             IF n = 0
               THEN scorerResult = [feedback |-> CouldNotEvaluate, score |-> 0]
               ELSE scorerResult.score = C15_Round(m, n)
        /\ scorerPrevious # NoResult => scorerResult = scorerPrevious

====
